---------------------------- MODULE Spec2Model ----------------------------
(***************************************************************************)
(* tailwind-dynamic-breakpoints (tdb): the token scanner of                *)
(* src/lib/parser.js and the regeneration controller of src/index.js.      *)
(*                                                                         *)
(* A text is a sequence of one-character strings.  Positions handed to    *)
(* the regular expression are 0-based, as in JavaScript; the character at  *)
(* 0-based position i of text t is t[i + 1].                               *)
(***************************************************************************)
EXTENDS Integers, Sequences, FiniteSets, TLC

(***************************************************************************)
(* Bounds of the model.                                                    *)
(***************************************************************************)
NFiles == 2
MaxRuns == 2
MaxEvents == 2

Files == 1..NFiles

(***************************************************************************)
(* Character classes of DYNAMIC_CLASS_REGEX (src/lib/parser.js:5).         *)
(***************************************************************************)
Digits == {"0", "1", "2", "3", "4", "5", "6", "7", "8", "9"}

WordChars ==
    {"a", "b", "c", "d", "e", "f", "g", "h", "i", "j", "k", "l", "m",
     "n", "o", "p", "q", "r", "s", "t", "u", "v", "w", "x", "y", "z",
     "A", "B", "C", "D", "E", "F", "G", "H", "I", "J", "K", "L", "M",
     "N", "O", "P", "Q", "R", "S", "T", "U", "V", "W", "X", "Y", "Z",
     "_"} \cup Digits

\* [\w\d\-\/\[\]\.\%]
ClassChars == WordChars \cup Digits \cup {"-", "/", "[", "]", ".", "%"}

MEDIA == <<"m", "e", "d", "i", "a", "-">>
MAX == <<"m", "a", "x">>
MIN == <<"m", "i", "n">>

\* A variant of RunLen for a lazy quantifier: the run stops after its first
\* character.
RunLenLazy(text, p, cls) == IF p <= Len(text) /\ text[p] \in cls THEN 1 ELSE 0

\* Length of the longest run of characters of class cls that starts at the
\* 1-based position p of text (a greedy + or * quantifier).
RECURSIVE RunLen(_, _, _)
RunLen(text, p, cls) ==
    IF p <= Len(text) /\ text[p] \in cls
    THEN 1 + RunLen(text, p + 1, cls)
    ELSE 0

NoMatch == [ok |-> FALSE, end |-> 0, fullMatch |-> <<>>, type |-> <<>>,
            value |-> <<>>, utilityClass |-> <<>>]

\* The match of /media-(max|min)-(\d+):([\w\d\-\/\[\]\.\%]+)/ anchored at the
\* 0-based position i, or NoMatch.  \d+ and the class run are greedy; since
\* ":" is no digit and nothing follows the class run, no backtracking can
\* turn a failure into a match.
MatchAt(text, i) ==
    LET d == RunLen(text, i + 11, Digits)
        c == RunLen(text, i + 12 + d, ClassChars)
    IN  IF /\ i + 10 <= Len(text)
           /\ SubSeq(text, i + 1, i + 6) = MEDIA
           /\ SubSeq(text, i + 7, i + 9) \in {MAX, MIN}
           /\ text[i + 10] = "-"
           /\ d >= 1
           /\ i + 11 + d <= Len(text)
           /\ text[i + 11 + d] = ":"
           /\ c >= 1
        THEN [ok |-> TRUE,
              end |-> i + 11 + d + c,
              fullMatch |-> SubSeq(text, i + 1, i + 11 + d + c),
              type |-> SubSeq(text, i + 7, i + 9),
              value |-> SubSeq(text, i + 11, i + 10 + d),
              utilityClass |-> SubSeq(text, i + 12 + d, i + 11 + d + c)]
        ELSE NoMatch

\* DYNAMIC_CLASS_REGEX.exec(content) with the cursor at from (the g flag):
\* the leftmost match starting at or after from; the cursor moves to the end
\* of the match, or back to 0 when there is none.
RECURSIVE Exec(_, _)
Exec(text, from) ==
    IF from > Len(text)
    THEN [match |-> NoMatch, lastIndex |-> 0]
    ELSE LET m == MatchAt(text, from)
         IN  IF m.ok THEN [match |-> m, lastIndex |-> m.end]
             ELSE Exec(text, from + 1)

\* The keys of a TokenSet, in insertion order.
Keys(allMatches) == [i \in 1..Len(allMatches) |-> allMatches[i].key]

KeySet(allMatches) == {allMatches[i].key : i \in 1..Len(allMatches)}

\* A variant of Entry that destructures the match in the wrong order.
EntrySwapped(m) == [key |-> m.fullMatch, type |-> m.type, value |-> m.utilityClass,
                    utilityClass |-> m.value]

Entry(m) == [key |-> m.fullMatch, type |-> m.type, value |-> m.value,
             utilityClass |-> m.utilityClass]

\* A variant of Store that stores every match, already present or not.
StoreAlways(allMatches, m) == Append(allMatches, Entry(m))

\* if (!allMatches[fullMatch]) allMatches[fullMatch] = {type, value, utilityClass}
\* A TokenSet is a JavaScript object keyed by strings that all begin with
\* "media-": its keys keep their insertion order and none of them meets a
\* property inherited from Object.prototype.
Store(allMatches, m) ==
    IF m.fullMatch \in KeySet(allMatches)
    THEN allMatches
    ELSE Append(allMatches, Entry(m))

\* A variant of ExecLoop that calls exec() once (an if for the while): only
\* the first match is stored and the cursor stays behind it.
ExecLoopOnce(content, cursor, allMatches) ==
    LET e == Exec(content, cursor)
    IN  [allMatches |-> IF e.match.ok THEN Store(allMatches, e.match) ELSE allMatches,
         lastIndex |-> e.lastIndex]

\* The while loop over exec(): every match of content from the cursor on is
\* stored; the loop ends when exec() returns null, which leaves the cursor 0.
RECURSIVE ExecLoop(_, _, _)
ExecLoop(content, cursor, allMatches) ==
    LET e == Exec(content, cursor)
    IN  IF e.match.ok
        THEN ExecLoop(content, e.lastIndex, Store(allMatches, e.match))
        ELSE [allMatches |-> allMatches, lastIndex |-> e.lastIndex]

\* Every match exec() reports on a text, from the cursor position from on,
\* repetitions included.
RECURSIVE MatchSeq(_, _)
MatchSeq(text, from) ==
    LET e == Exec(text, from)
    IN  IF e.match.ok THEN <<e.match>> \o MatchSeq(text, e.lastIndex) ELSE <<>>

\* The raw tokens that occur in a text.
TokensOf(text) ==
    LET ms == MatchSeq(text, 0) IN {ms[i].fullMatch : i \in 1..Len(ms)}

(***************************************************************************)
(* File contents the scanner is run on.                                    *)
(***************************************************************************)
Tok(dir, digits, cls) == MEDIA \o dir \o <<"-">> \o digits \o <<":">> \o cls

TokA == Tok(MAX, <<"7">>, <<"a">>)
TokB == Tok(MIN, <<"7">>, <<"a">>)
TokC == Tok(MAX, <<"7">>, <<"z", "z">>)

\* media-max-7:a
TextA == TokA
\* media-max-7:a media-min-7:a"media-max-7:a
TextAB == TokA \o <<" ">> \o TokB \o <<"\"">> \o TokA
\* media-max-:a media-max-7:zz    (the first is no token: it has no digits)
TextC == MEDIA \o MAX \o <<"-", ":", "a", " ">> \o TokC

Texts == {TextA, TextAB, TextC}

(***************************************************************************)
(* CSS generation (lib/generator.js, required at src/index.js:10): one     *)
(* media-query block per (type, value), blocks in the order their key is   *)
(* first met, rules in scan order, unresolvable utility classes left out.  *)
(***************************************************************************)
\* The utility classes the external CSS engine resolves.
KnownUtilities == {<<"a">>}

Resolves(utilityClass) == utilityClass \in KnownUtilities

Rule(e) == [selector |-> e.key, declarations |-> e.utilityClass]

AddRule(doc, e) ==
    IF \E g \in 1..Len(doc) : doc[g].type = e.type /\ doc[g].value = e.value
    THEN [g \in 1..Len(doc) |->
            IF doc[g].type = e.type /\ doc[g].value = e.value
            THEN [doc[g] EXCEPT !.rules = Append(@, Rule(e))]
            ELSE doc[g]]
    ELSE Append(doc, [type |-> e.type, value |-> e.value, rules |-> <<Rule(e)>>])

RECURSIVE Assemble(_, _)
Assemble(files, doc) ==
    IF files = <<>> THEN doc
    ELSE Assemble(Tail(files),
                  IF Resolves(Head(files).utilityClass)
                  THEN AddRule(doc, Head(files))
                  ELSE doc)

generateCss(files) == Assemble(files, <<>>)

(***************************************************************************)
(* State.                                                                  *)
(***************************************************************************)
VARIABLES
    argv,            \* the command line: [watch, postCommand]
    tailwindConfig,  \* what require(tailwindConfigPath) yields
    proc,            \* the process: [phase, exitCode]
    watching,        \* the chokidar 'change' handler is registered
    runs,            \* one record per call of run(), in call order
    lastIndex,       \* DYNAMIC_CLASS_REGEX.lastIndex
    exists,          \* the files that match the content globs
    fileText,        \* their contents
    output,          \* the file at config.output
    events           \* file-system events so far

vars == <<argv, tailwindConfig, proc, watching, runs, lastIndex, exists,
          fileText, output, events>>

\* require() throws; the object has no content; content is null, '', [], or
\* a non-empty glob pattern (list).
ConfigKinds == {"loadError", "undefined", "null", "emptyString", "emptyArray", "globs"}

NoExit == 0 - 1

PcValues == {"glob", "read", "generate", "write", "writing", "post", "done", "failed"}

InProgress(run) == run.pc \notin {"done", "failed"}

NewRun ==
    [pc |-> "glob", allFilePaths |-> <<>>, idx |-> 1, allMatches |-> <<>>,
     css |-> <<>>, noContentWarning |-> FALSE, skipped |-> {},
     outcome |-> "none", failedAt |-> "none", loggedCount |-> NoExit,
     postError |-> FALSE]

Init ==
    /\ argv \in [watch : BOOLEAN, postCommand : BOOLEAN]
    /\ tailwindConfig \in ConfigKinds
    /\ proc = [phase |-> "start", exitCode |-> NoExit]
    /\ watching = FALSE
    /\ runs = <<>>
    /\ lastIndex = 0
    /\ exists \in SUBSET Files
    /\ fileText \in [Files -> Texts]
    /\ \A f \in Files : f \notin exists => fileText[f] = TextA
    /\ output = [present |-> FALSE, data |-> <<>>]
    /\ events = 0

(***************************************************************************)
(* run(), src/index.js:25-92, split at its await points.                   *)
(***************************************************************************)
\* process.exit(1)
Exit1 == [phase |-> "exited", exitCode |-> 1]

\* A variant of RunCatch that logs the error and lets the process go on.
RunCatchContinues(p) == p

\* The catch block of run(): the error is logged and the process exits.
RunCatch(p) == Exit1

\* A variant of PostCommandCatch that treats the failure as critical.
PostCommandCatchExits(p) == Exit1

\* The catch block around the post-command: the error is logged, no more.
PostCommandCatch(p) == p

Failed(run, at) == [run EXCEPT !.pc = "failed", !.outcome = "Failed", !.failedAt = at]

\* A variant of ContentIsEmpty that lets an empty array through.
ContentIsEmptyNoArray(content) == content \in {"null", "emptyString"}

\* !contentGlobs || (Array.isArray(contentGlobs) && contentGlobs.length === 0)
ContentIsEmpty(content) == content \in {"null", "emptyString", "emptyArray"}

\* parseFiles() up to its first await: the empty-globs guard returns {} with
\* a warning, otherwise glob.glob() is called and awaited.
ParseFilesStart(content) ==
    IF ContentIsEmpty(content)
    THEN [NewRun EXCEPT !.pc = "generate", !.noContentWarning = TRUE]
    ELSE [NewRun EXCEPT !.pc = "glob"]

\* !tailwindConfig || typeof tailwindConfig.content === 'undefined'
ContentMissing(config) == config = "undefined"

\* run() up to its first await.
RunStart ==
    IF tailwindConfig = "loadError" THEN Failed(NewRun, "config")
    ELSE IF ContentMissing(tailwindConfig) THEN Failed(NewRun, "content")
    ELSE ParseFilesStart(tailwindConfig)

\* The `if (argv.watch)` block: what becomes of the process and the watcher.
\* null.length throws a TypeError nothing catches; '' and [] have length 0.
WatchSetup ==
    IF tailwindConfig = "null" THEN [proc |-> Exit1, watching |-> FALSE]
    ELSE IF tailwindConfig \in {"emptyString", "emptyArray"}
    THEN [proc |-> [phase |-> "live", exitCode |-> NoExit], watching |-> FALSE]
    ELSE [proc |-> [phase |-> "live", exitCode |-> NoExit], watching |-> TRUE]

\* The top level of the script: run(argv), then the watch block.
Main ==
    /\ proc.phase = "start"
    /\ LET r == RunStart IN
        /\ runs' = <<r>>
        /\ IF r.pc = "failed"
           THEN proc' = Exit1 /\ watching' = FALSE
           ELSE IF argv.watch
           THEN proc' = WatchSetup.proc /\ watching' = WatchSetup.watching
           ELSE proc' = [phase |-> "live", exitCode |-> NoExit] /\ watching' = FALSE
    /\ UNCHANGED <<argv, tailwindConfig, lastIndex, exists, fileText, output, events>>

Perms(S) ==
    {s \in [1..Cardinality(S) -> S] : \A i, j \in 1..Cardinality(S) : s[i] = s[j] => i = j}

\* glob.glob() resolves: the matching files, in the order the enumeration
\* yields them; the loop then starts the first read.
Glob(r) ==
    /\ proc.phase = "live"
    /\ runs[r].pc = "glob"
    /\ \E order \in Perms(exists) :
        runs' = [runs EXCEPT ![r].allFilePaths = order,
                             ![r].pc = IF order = <<>> THEN "generate" ELSE "read"]
    /\ UNCHANGED <<argv, tailwindConfig, proc, watching, lastIndex, exists,
                   fileText, output, events>>

\* A variant of ReadFailed that drops what earlier files gave.
ReadFailedDrops(run, f) == [run EXCEPT !.skipped = @ \cup {f}, !.allMatches = <<>>]

\* catch (error) { console.warn(`Warning: Could not read file ...`) }
ReadFailed(run, f) == [run EXCEPT !.skipped = @ \cup {f}]

\* The body of the try block once the content is there: the cursor is reset
\* and the exec() loop runs to its end.
ScanContent(content, allMatches) == ExecLoop(content, 0, allMatches)

Advance(run) ==
    [run EXCEPT !.idx = @ + 1,
                !.pc = IF run.idx + 1 > Len(run.allFilePaths) THEN "generate" ELSE "read"]

\* fs.readFile() of the current file settles; the loop moves to the next file.
Read(r) ==
    /\ proc.phase = "live"
    /\ runs[r].pc = "read"
    /\ LET f == runs[r].allFilePaths[runs[r].idx] IN
        \E ok \in (IF f \in exists THEN BOOLEAN ELSE {FALSE}) :
            IF ok
            THEN LET s == ScanContent(fileText[f], runs[r].allMatches) IN
                 /\ runs' = [runs EXCEPT ![r] =
                                Advance([runs[r] EXCEPT !.allMatches = s.allMatches])]
                 /\ lastIndex' = s.lastIndex
            ELSE /\ runs' = [runs EXCEPT ![r] = Advance(ReadFailed(runs[r], f))]
                 /\ lastIndex' = lastIndex
    /\ UNCHANGED <<argv, tailwindConfig, proc, watching, exists, fileText,
                   output, events>>

\* generateCss() settles: the document, or an exception of the engine.
Generate(r) ==
    /\ proc.phase = "live"
    /\ runs[r].pc = "generate"
    /\ \E engineOk \in BOOLEAN :
        IF engineOk
        THEN /\ runs' = [runs EXCEPT ![r].css = generateCss(runs[r].allMatches),
                                     ![r].pc = "write"]
             /\ proc' = proc
        ELSE /\ runs' = [runs EXCEPT ![r] = Failed(runs[r], "generate")]
             /\ proc' = RunCatch(proc)
    /\ UNCHANGED <<argv, tailwindConfig, watching, lastIndex, exists, fileText,
                   output, events>>

\* fs.writeFile() opens config.output for writing, which truncates it, or fails.
WriteOpen(r) ==
    /\ proc.phase = "live"
    /\ runs[r].pc = "write"
    /\ \E ok \in BOOLEAN :
        IF ok
        THEN /\ runs' = [runs EXCEPT ![r].pc = "writing"]
             /\ output' = [present |-> TRUE, data |-> <<>>]
             /\ proc' = proc
        ELSE /\ runs' = [runs EXCEPT ![r] = Failed(runs[r], "write")]
             /\ output' = output
             /\ proc' = RunCatch(proc)
    /\ UNCHANGED <<argv, tailwindConfig, watching, lastIndex, exists, fileText, events>>

\* A variant of WriteData that ends the run without starting the post-command.
WriteDataSkipsPost(r) ==
    /\ proc.phase = "live"
    /\ runs[r].pc = "writing"
    /\ output' = [present |-> TRUE, data |-> runs[r].css]
    /\ runs' = [runs EXCEPT ![r].loggedCount = Len(runs[r].allMatches),
                            ![r].outcome = "Success",
                            ![r].pc = "done"]
    /\ UNCHANGED <<argv, tailwindConfig, proc, watching, lastIndex, exists,
                   fileText, events>>

\* fs.writeFile() settles: the document is in the file; the rule count is
\* logged; the post-command is started if there is one.
WriteData(r) ==
    /\ proc.phase = "live"
    /\ runs[r].pc = "writing"
    /\ output' = [present |-> TRUE, data |-> runs[r].css]
    /\ runs' = [runs EXCEPT ![r].loggedCount = Len(runs[r].allMatches),
                            ![r].outcome = "Success",
                            ![r].pc = IF argv.postCommand THEN "post" ELSE "done"]
    /\ UNCHANGED <<argv, tailwindConfig, proc, watching, lastIndex, exists,
                   fileText, events>>

\* The callback of exec(config.postCommand): success, or an error that the
\* inner catch logs.
PostCommand(r) ==
    /\ proc.phase = "live"
    /\ runs[r].pc = "post"
    /\ \E ok \in BOOLEAN :
        /\ runs' = [runs EXCEPT ![r].pc = "done", ![r].postError = ~ok]
        /\ proc' = IF ok THEN proc ELSE PostCommandCatch(proc)
    /\ UNCHANGED <<argv, tailwindConfig, watching, lastIndex, exists, fileText,
                   output, events>>

\* Nothing keeps the event loop alive: the process ends with status 0.
EndOfProcess ==
    /\ proc.phase = "live"
    /\ ~watching
    /\ \A r \in 1..Len(runs) : runs[r].pc = "done"
    /\ proc' = [phase |-> "exited", exitCode |-> 0]
    /\ UNCHANGED <<argv, tailwindConfig, watching, runs, lastIndex, exists,
                   fileText, output, events>>

(***************************************************************************)
(* The file system and the watcher.                                        *)
(***************************************************************************)
\* .on('change', (filePath) => { ...; run(argv); })
OnChange(rs) == Append(rs, RunStart)

\* A watched file is modified; chokidar reports 'change'.
ModifyFile(f, t) ==
    /\ proc.phase = "live"
    /\ events < MaxEvents
    /\ f \in exists
    /\ t # fileText[f]
    /\ fileText' = [fileText EXCEPT ![f] = t]
    /\ events' = events + 1
    /\ IF watching
       THEN /\ Len(runs) < MaxRuns
            /\ runs' = OnChange(runs)
            /\ proc' = IF runs'[Len(runs')].pc = "failed" THEN Exit1 ELSE proc
       ELSE UNCHANGED <<runs, proc>>
    /\ UNCHANGED <<argv, tailwindConfig, watching, lastIndex, exists, output>>

\* A file matching the patterns is created; chokidar reports 'add', for
\* which no handler is registered.
CreateFile(f, t) ==
    /\ proc.phase = "live"
    /\ events < MaxEvents
    /\ f \notin exists
    /\ exists' = exists \cup {f}
    /\ fileText' = [fileText EXCEPT ![f] = t]
    /\ events' = events + 1
    /\ UNCHANGED <<argv, tailwindConfig, proc, watching, runs, lastIndex, output>>

\* A file is deleted; chokidar reports 'unlink', for which no handler is
\* registered.
DeleteFile(f) ==
    /\ proc.phase = "live"
    /\ events < MaxEvents
    /\ f \in exists
    /\ exists' = exists \ {f}
    /\ fileText' = [fileText EXCEPT ![f] = TextA]
    /\ events' = events + 1
    /\ UNCHANGED <<argv, tailwindConfig, proc, watching, runs, lastIndex, output>>

Next ==
    \/ Main
    \/ \E r \in 1..Len(runs) : Glob(r)
    \/ \E r \in 1..Len(runs) : Read(r)
    \/ \E r \in 1..Len(runs) : Generate(r)
    \/ \E r \in 1..Len(runs) : WriteOpen(r)
    \/ \E r \in 1..Len(runs) : WriteData(r)
    \/ \E r \in 1..Len(runs) : PostCommand(r)
    \/ EndOfProcess
    \/ \E f \in Files, t \in Texts : ModifyFile(f, t)
    \/ \E f \in Files, t \in Texts : CreateFile(f, t)
    \/ \E f \in Files : DeleteFile(f)

Spec == Init /\ [][Next]_vars

\* The program started without --watch.
InitOnce == Init /\ ~argv.watch

SpecOnce == InitOnce /\ [][Next]_vars

(***************************************************************************)
(* The scanner on composed file contents: the first file holds any text     *)
(* made of at most MaxPieces pieces; the program runs without --watch.      *)
(***************************************************************************)
MaxPieces == 3

\* media-max-7:     (a token up to its colon; what follows is its class part)
PieceHead == MEDIA \o MAX \o <<"-", "7", ":">>
\* media-min-12:a
PieceToken == Tok(MIN, <<"1", "2">>, <<"a">>)
\* w-[5%]/.2_       (one of every kind of character the class part admits)
PieceClass == <<"w", "-", "[", "5", "%", "]", "/", ".", "2", "_">>

Pieces == {PieceHead, PieceToken, PieceClass, <<" ">>, <<"\"">>}

RECURSIVE Concat(_)
Concat(ps) == IF ps = <<>> THEN <<>> ELSE Head(ps) \o Concat(Tail(ps))

ScanTexts == {Concat(ps) : ps \in UNION {[1..n -> Pieces] : n \in 0..MaxPieces}}

InitScan ==
    /\ argv \in [watch : {FALSE}, postCommand : BOOLEAN]
    /\ tailwindConfig \in ConfigKinds
    /\ proc = [phase |-> "start", exitCode |-> NoExit]
    /\ watching = FALSE
    /\ runs = <<>>
    /\ lastIndex = 0
    /\ exists \in SUBSET Files
    /\ fileText \in [Files -> ScanTexts \cup {TextA}]
    /\ \A f \in Files : f # 1 \/ f \notin exists => fileText[f] = TextA
    /\ output = [present |-> FALSE, data |-> <<>>]
    /\ events = 0

SpecScan == InitScan /\ [][Next]_vars

(***************************************************************************)
(* Properties.                                                             *)
(***************************************************************************)
RunIds == 1..Len(runs)

Range(seq) == {seq[i] : i \in 1..Len(seq)}

Running(r) == proc.phase = "live" /\ InProgress(runs[r])

\* The scan of run r is over (parseFiles has returned, or was never called).
Scanned(r) == runs[r].pc \notin {"glob", "read"}

ModifyStep == events' = events + 1 /\ exists' = exists

CreateStep == events' = events + 1 /\ exists' # exists /\ exists \subseteq exists'

EmptyDocument == [present |-> TRUE, data |-> <<>>]

\* C1: in watch mode at most one cycle of run() is in progress at any time.
AtMostOneRunning == Cardinality({r \in RunIds : Running(r)}) <= 1

\* C2: a change event that arrives while a run is in progress starts no run
\* there and then: the one additional run starts only after the run in
\* progress has completed.
ChangeDuringRunWaits ==
    [][(watching /\ ModifyStep /\ \E r \in RunIds : Running(r))
         => Len(runs') = Len(runs)]_vars

\* C3: in watch mode a run that ends Failed does not terminate the process.
WatchSurvivesFailedRun ==
    (watching /\ \E r \in RunIds : runs[r].outcome = "Failed") => proc.phase = "live"

\* C4: a failing post-command is only logged: the step that handles the
\* failure leaves the run a Success, the process as it is and the watcher
\* registered; and a process that ended non-zero has a Failed run to show
\* for it whenever a post-command failed.
PostCommandFailureOnlyLogged ==
    /\ [][\A r \in RunIds :
            (runs[r].pc = "post" /\ runs'[r].pc = "done" /\ runs'[r].postError)
              => /\ runs'[r].outcome = "Success"
                 /\ proc' = proc
                 /\ watching' = watching]_vars
    /\ [](\A r \in RunIds :
            runs[r].postError
              => /\ runs[r].outcome = "Success"
                 /\ (proc.exitCode = 1 => \E q \in RunIds : runs[q].outcome = "Failed"))

PostCommandFailureWitness ==
    \E r \in RunIds :
        /\ runs[r].postError /\ runs[r].pc = "done" /\ runs[r].outcome = "Success"
        /\ watching /\ proc.phase = "live"
        /\ \E q \in RunIds : q > r /\ runs[q].pc = "glob"

\* C5: a read step leaves the TokenSet with exactly one entry per distinct
\* raw token matched so far, and the entries it had stay where they were.
OneEntryPerToken ==
    [][\A r \in RunIds :
         (runs[r].pc = "read" /\ runs'[r].skipped = runs[r].skipped
            /\ runs'[r].idx = runs[r].idx + 1)
           => LET f == runs[r].allFilePaths[runs[r].idx]
                  old == runs[r].allMatches
                  new == runs'[r].allMatches
              IN  /\ KeySet(new) = KeySet(old) \cup TokensOf(fileText[f])
                  /\ Cardinality(KeySet(new)) = Len(new)
                  /\ Len(new) >= Len(old)
                  /\ SubSeq(new, 1, Len(old)) = old]_vars

SameTokenInTwoFilesWitness ==
    \E r \in RunIds :
        /\ events = 0
        /\ Len(runs[r].allFilePaths) = 2 /\ runs[r].idx = 3 /\ runs[r].skipped = {}
        /\ \A f \in Files : fileText[f] = TextAB
        /\ Keys(runs[r].allMatches) = <<TokA, TokB>>

\* C6: a failing read is skipped with a warning and nothing else: the
\* entries collected so far stay, the loop goes on to the next file, the
\* process lives; and a finished scan holds every token of every file that
\* was read.
ScanSurvivesReadFailure ==
    /\ [][\A r \in RunIds :
            (runs[r].pc = "read" /\ runs'[r].skipped # runs[r].skipped)
              => /\ runs'[r].skipped =
                        runs[r].skipped \cup {runs[r].allFilePaths[runs[r].idx]}
                 /\ runs'[r].allMatches = runs[r].allMatches
                 /\ runs'[r].idx = runs[r].idx + 1
                 /\ runs'[r].pc \in {"read", "generate"}
                 /\ proc' = proc]_vars
    /\ [](\A r \in RunIds :
            (events = 0 /\ Scanned(r))
              => KeySet(runs[r].allMatches) =
                   UNION {TokensOf(fileText[f]) :
                            f \in Range(runs[r].allFilePaths) \ runs[r].skipped})

ReadFailureWitness ==
    \E r \in RunIds :
        /\ events = 0 /\ Len(runs[r].allFilePaths) = 2
        /\ runs[r].skipped = {runs[r].allFilePaths[2]}
        /\ fileText[runs[r].allFilePaths[1]] = TextAB
        /\ fileText[runs[r].allFilePaths[2]] = TextC
        /\ Keys(runs[r].allMatches) = <<TokA, TokB>>
        /\ runs[r].outcome = "Success"

\* C7 as stated: with an empty or missing glob-pattern configuration the
\* run has zero tokens, warns, writes an empty document, and the process
\* exits 0 (non-watch mode).
EmptyOrMissingContentExitsZero ==
    (~argv.watch /\ tailwindConfig \in {"undefined", "emptyString", "emptyArray"}
       /\ proc.phase = "exited")
      => /\ proc.exitCode = 0
         /\ output = EmptyDocument
         /\ runs[1].noContentWarning
         /\ runs[1].allMatches = <<>>

\* C7 amended: with a content value that is present but empty the scan has
\* zero tokens and warns, no file is enumerated, and unless generation or
\* the write fails an empty document is written and the process exits 0;
\* with no content value the run fails before the scan and the process
\* exits 1 with nothing written.
EmptyContentWritesEmptyDocument ==
    (~argv.watch /\ runs # <<>>)
      => /\ tailwindConfig \in {"emptyString", "emptyArray"}
            => /\ runs[1].noContentWarning
               /\ runs[1].allMatches = <<>>
               /\ runs[1].allFilePaths = <<>>
               /\ Scanned(1)
               /\ runs[1].failedAt \in {"none", "generate", "write"}
               /\ proc.phase = "exited"
                    => IF runs[1].failedAt = "none"
                       THEN proc.exitCode = 0 /\ output = EmptyDocument
                              /\ runs[1].outcome = "Success"
                       ELSE proc.exitCode = 1
         /\ tailwindConfig = "undefined"
            => /\ runs[1].failedAt = "content"
               /\ ~runs[1].noContentWarning
               /\ proc = Exit1
               /\ ~output.present

EmptyContentWitness ==
    /\ ~argv.watch /\ tailwindConfig = "emptyArray"
    /\ proc.phase = "exited" /\ proc.exitCode = 0
    /\ runs[1].noContentWarning /\ output = EmptyDocument

\* C8: a configuration without content, or with content of the wrong type,
\* is fatal: nothing is scanned, nothing is written, no post-command runs,
\* and in non-watch mode the process exits non-zero.
MissingOrInvalidContentIsFatal ==
    (tailwindConfig \in {"undefined", "null"} /\ runs # <<>>)
      => /\ \A r \in RunIds :
              /\ runs[r].outcome # "Success"
              /\ runs[r].allFilePaths = <<>>
              /\ runs[r].pc \notin {"glob", "read", "post"}
         /\ ~output.present
         /\ (~argv.watch /\ proc.phase = "exited") => proc.exitCode = 1

\* C9: in non-watch mode run() is called once, and the process ends with
\* status 0 exactly when that run reached Success, whatever the post-command
\* did, and with status 1 as soon as it failed.
ExitStatusMatchesOutcome ==
    (~argv.watch /\ proc.phase # "start")
      => /\ Len(runs) = 1
         /\ runs[1].outcome = "Failed" <=> proc = Exit1
         /\ runs[1].outcome = "Failed"
              <=> runs[1].failedAt \in {"config", "content", "generate", "write"}
         /\ runs[1].outcome = "Success" => output = [present |-> TRUE, data |-> runs[1].css]
         /\ proc.phase = "exited"
              => /\ runs[1].pc \in {"done", "failed"}
                 /\ proc.exitCode = 0 <=> runs[1].outcome = "Success"
         /\ (proc.phase = "live" /\ runs[1].pc = "done") => ENABLED EndOfProcess

ExitZeroDespitePostCommandWitness ==
    /\ ~argv.watch /\ proc.phase = "exited" /\ proc.exitCode = 0
    /\ runs[1].postError /\ runs[1].outcome = "Success"

\* C10: in watch mode every create event and every modify event on a
\* watched file starts exactly one new cycle of run().
EveryCreateOrModifyStartsOneRun ==
    [][(watching /\ proc.phase = "live" /\ (CreateStep \/ ModifyStep))
         => Len(runs') = Len(runs) + 1]_vars

\* C11: the steps of a run happen in the order scan, generate, write,
\* post-command: the write starts only from a finished scan and generation,
\* the output file changes only at the hands of a run that is writing, the
\* post-command starts only when that run's document is in the file, a run
\* with a post-command ends only from the post-command, and a failed run
\* stays failed.
StepsInOrder ==
    [][/\ \A r \in RunIds :
            /\ (runs'[r].pc = "write" /\ runs[r].pc # "write")
                 => /\ runs[r].pc = "generate"
                    /\ runs[r].idx > Len(runs[r].allFilePaths)
            /\ (runs'[r].pc = "writing" /\ runs[r].pc # "writing")
                 => runs[r].pc = "write"
            /\ (runs'[r].pc = "post" /\ runs[r].pc # "post")
                 => /\ runs[r].pc = "writing"
                    /\ argv.postCommand
                    /\ runs'[r].outcome = "Success"
                    /\ output' = [present |-> TRUE, data |-> runs[r].css]
            /\ (runs'[r].pc = "done" /\ runs[r].pc # "done")
                 => /\ runs[r].pc = IF argv.postCommand THEN "post" ELSE "writing"
                    /\ runs'[r].outcome = "Success"
            /\ runs[r].pc = "failed"
                 => runs'[r].pc = "failed" /\ ~runs'[r].postError
       /\ output' # output
            => \E r \in RunIds :
                 /\ runs[r].pc \in {"write", "writing"}
                 /\ runs'[r].pc # runs[r].pc
                 /\ runs[r].css = generateCss(runs[r].allMatches)]_vars

PostCommandAfterWriteWitness ==
    \E r \in RunIds :
        /\ runs[r].pc = "post" /\ runs[r].css # <<>>
        /\ output = [present |-> TRUE, data |-> runs[r].css]

\* C12: the output file is written atomically and wholesale: whenever it
\* has been touched it holds the complete document of one run that wrote it.
OutputIsWholeDocument ==
    output.present
      => \E r \in RunIds :
           /\ runs[r].pc \in {"writing", "post", "done"}
           /\ output.data = runs[r].css

\* The TokenSet a scan of the files as they are now yields when it reads
\* them all, in the given order.
RECURSIVE ScanFiles(_, _)
ScanFiles(order, allMatches) ==
    IF order = <<>> THEN allMatches
    ELSE ScanFiles(Tail(order), ScanContent(fileText[Head(order)], allMatches).allMatches)

\* The documents a run over the files as they are now can produce.
FreshDocuments == {generateCss(ScanFiles(order, <<>>)) : order \in Perms(exists)}

\* C13: in watch mode, once every run has completed (every event so far was
\* a modification and started its run, and no read failed), the output file
\* holds a document of the files as they are after the last change.
StaleRunSuperseded ==
    (/\ watching /\ proc.phase = "live"
     /\ Len(runs) = events + 1
     /\ \A r \in RunIds : runs[r].pc = "done" /\ runs[r].skipped = {})
      => output.data \in FreshDocuments

\* C14: for the same file contents the TokenSet parseFiles returns has the
\* same entries in the same insertion order whatever order the enumeration
\* yields the files in.
ScanOrderIndependent ==
    \A r \in RunIds :
        (/\ events = 0 /\ Scanned(r)
         /\ Range(runs[r].allFilePaths) = exists /\ runs[r].skipped = {})
          => \A order \in Perms(exists) :
               Keys(runs[r].allMatches) = Keys(ScanFiles(order, <<>>))

\* The number of rules in a document.
RECURSIVE NumRules(_)
NumRules(doc) == IF doc = <<>> THEN 0 ELSE Len(Head(doc).rules) + NumRules(Tail(doc))

\* C15: on Success the logged count is the number of rules written to the
\* output document; tokens the engine cannot resolve are not counted.
LoggedCountIsRulesWritten ==
    \A r \in RunIds :
        runs[r].outcome = "Success" => runs[r].loggedCount = NumRules(runs[r].css)

\* The TokenSet after the matches ms have been stored, in order.
RECURSIVE StoreAll(_, _)
StoreAll(allMatches, ms) ==
    IF ms = <<>> THEN allMatches ELSE StoreAll(Store(allMatches, Head(ms)), Tail(ms))

\* C16: parseFiles calls share nothing that affects their results: the
\* regex cursor is 0 at every await point, so every matching loop starts at
\* position 0; a read step of one call stores what the file's matches from
\* position 0 on give that call alone, and leaves every other call as it was.
ScansDoNotInterfere ==
    /\ [](lastIndex = 0)
    /\ [][\A r \in RunIds :
            (runs[r].pc = "read" /\ runs'[r].idx = runs[r].idx + 1)
              => /\ \A q \in RunIds \ {r} : runs'[q] = runs[q]
                 /\ runs'[r].skipped = runs[r].skipped
                      => runs'[r].allMatches =
                           StoreAll(runs[r].allMatches,
                                    MatchSeq(fileText[runs[r].allFilePaths[runs[r].idx]], 0))]_vars

InterleavedScansWitness ==
    \E r, q \in RunIds :
        /\ r # q
        /\ runs[r].pc = "read" /\ runs[r].idx = 2 /\ runs[r].allMatches # <<>>
        /\ runs[q].pc = "generate" /\ runs[q].idx = 3 /\ runs[q].skipped = {}
        /\ Keys(runs[q].allMatches) = <<TokC, TokA, TokB>>

\* The entries of every TokenSet of every run.
AllEntries == UNION {Range(runs[r].allMatches) : r \in RunIds}

\* C17: every entry of a TokenSet is consistent with its key: the key is
\* "media-" type "-" value ":" utilityClass, with type max or min, value a
\* non-empty string of digits and utilityClass non-empty; so the key
\* determines the components and equal components have equal keys.
EntryConsistentWithKey ==
    /\ \A e \in AllEntries :
          /\ e.key = Tok(e.type, e.value, e.utilityClass)
          /\ e.type \in {MAX, MIN}
          /\ e.value # <<>> /\ Range(e.value) \subseteq Digits
          /\ e.utilityClass # <<>>
    /\ \A e1, e2 \in AllEntries :
          e1.key = e2.key
            <=> (e1.type = e2.type /\ e1.value = e2.value
                   /\ e1.utilityClass = e2.utilityClass)

SeveralEntriesWitness ==
    \E r \in RunIds :
        /\ Scanned(r)
        /\ \E e1, e2 \in Range(runs[r].allMatches) :
              /\ e1.type = MAX /\ Len(e1.utilityClass) > 1
              /\ e2.type = MIN /\ Len(e2.value) = 2

\* A run whose scan is over and saw every existing file as it is now.
ScannedAll(r) ==
    /\ Scanned(r) /\ runs[r].idx > 0
    /\ events = 0
    /\ runs[r].skipped = {}
    /\ Range(runs[r].allFilePaths) = exists

\* The 0-based positions of text, from i on, where a scan that is free to
\* match from position free on finds its matches: the leftmost match first,
\* then the leftmost one that begins at or after the end of the previous.
RECURSIVE LeftmostStarts(_, _, _)
LeftmostStarts(text, i, free) ==
    IF i >= Len(text) THEN {}
    ELSE IF i >= free /\ MatchAt(text, i).ok
         THEN {i} \cup LeftmostStarts(text, i + 1, MatchAt(text, i).end)
         ELSE LeftmostStarts(text, i + 1, free)

\* key occurs in text and is followed by no character of the class part.
OccursGreedily(key, text) ==
    \E i \in 0..Len(text) :
        /\ i + Len(key) <= Len(text)
        /\ SubSeq(text, i + 1, i + Len(key)) = key
        /\ (i + Len(key) = Len(text) \/ text[i + Len(key) + 1] \notin ClassChars)

\* C18 as stated: every substring of a readable file that matches the token
\* grammar is a key of the TokenSet.
EveryGrammarMatchExtracted ==
    \A r \in RunIds :
        ScannedAll(r) =>
            \A f \in exists : \A i \in 0..Len(fileText[f]) :
                MatchAt(fileText[f], i).ok
                  => MatchAt(fileText[f], i).fullMatch \in KeySet(runs[r].allMatches)

\* C18, amended: the TokenSet holds, once per distinct raw token, exactly
\* the leftmost non-overlapping matches of every readable file, each scan
\* resuming where the previous match ended; every token is matched greedily,
\* its class part ending at the end of the text or before the first
\* character outside the class set.  A substring that matches the grammar
\* but begins inside an earlier match is not extracted for that occurrence.
LeftmostGreedyMatchesExtracted ==
    \A r \in RunIds :
        ScannedAll(r) =>
            LET allMatches == runs[r].allMatches IN
            /\ KeySet(allMatches) =
                 UNION {{MatchAt(fileText[f], i).fullMatch :
                            i \in LeftmostStarts(fileText[f], 0, 0)} : f \in exists}
            /\ Cardinality(KeySet(allMatches)) = Len(allMatches)
            /\ \A k \in KeySet(allMatches) :
                  \E f \in exists : OccursGreedily(k, fileText[f])

NestedTokenWitness ==
    \E r \in RunIds :
        /\ ScannedAll(r)
        /\ runs[r].pc = "done"
        /\ 1 \in exists
        /\ fileText[1] = PieceHead \o PieceToken \o <<"\"">>
        /\ Keys(runs[r].allMatches)
             = <<Tok(MAX, <<"7">>, SubSeq(PieceToken, 1, 12))>>

=============================================================================
